---- MODULE Spec2Model ----
(***************************************************************************)
(* ProtExtract helper scripts: extract_and_rename_sequences.py,            *)
(* merge_fasta_files.py, keep_verified_sequences.py and                    *)
(* generate_protein_table.py, as one state machine.  Each behaviour is one *)
(* run of one script (prog); the files it reads are supplied line by line  *)
(* and record by record as the script consumes them.                       *)
(*                                                                         *)
(* Strings are sequences of one-character strings, so that split, strip,   *)
(* lower, the substring test and the natural sort key are computed.        *)
(***************************************************************************)
EXTENDS Integers, Sequences, FiniteSets, TLC

VARIABLES prog, pc, list_file, input_file, input_dir, listing, files, cursor,
          sequences, records, sorted_records, keep_strings, kept_records,
          protein_info, output

vars == <<prog, pc, list_file, input_file, input_dir, listing, files, cursor,
          sequences, records, sorted_records, keep_strings, kept_records,
          protein_info, output>>

\* Bounds of the model: lines of a list file, records of a FASTA input,
\* files of an input directory.
MaxLines == 2
MaxRecords == 2
MaxFiles == 2

(***************************************************************************)
(* Characters and Python's str operations                                  *)
(***************************************************************************)
Alphabet ==
    <<"\n", " ", ".", "0", "1", "2", "A", "B", "G", "K", "M",
      "a", "b", "d", "f", "g", "i", "m", "n", "p", "s", "t", "x", "|">>

CodePoint ==
    <<10, 32, 46, 48, 49, 50, 65, 66, 71, 75, 77,
      97, 98, 100, 102, 103, 105, 109, 110, 112, 115, 116, 120, 124>>

Code(c) == CodePoint[CHOOSE i \in 1..Len(Alphabet) : Alphabet[i] = c]

CharOf(n) == Alphabet[CHOOSE i \in 1..Len(CodePoint) : CodePoint[i] = n]

IsDigit(c) == Code(c) \in 48..57

IsUpper(c) == Code(c) \in 65..90

IsSpace(c) == Code(c) \in {9, 10, 11, 12, 13, 32}

\* c.lower()
LowerChar(c) == IF IsUpper(c) THEN CharOf(Code(c) + 32) ELSE c

\* s.lower()
Lower(s) == [i \in 1..Len(s) |-> LowerChar(s[i])]

\* s[a:b] for 1-based inclusive positions, empty when a > b
Slice(s, a, b) == IF a > b THEN <<>> ELSE SubSeq(s, a, b)

\* s.strip(): leading and trailing whitespace removed
Strip(s) ==
    LET keep == {i \in 1..Len(s) : ~IsSpace(s[i])}
        Min(S) == CHOOSE x \in S : \A y \in S : x <= y
        Max(S) == CHOOSE x \in S : \A y \in S : x >= y
    IN  IF keep = {} THEN <<>> ELSE SubSeq(s, Min(keep), Max(keep))

\* s.split(): the maximal runs of non-whitespace characters, in order
RECURSIVE SplitFrom(_, _, _)
SplitFrom(s, i, word) ==
    IF i > Len(s)
    THEN IF word = <<>> THEN <<>> ELSE <<word>>
    ELSE IF IsSpace(s[i])
         THEN (IF word = <<>> THEN <<>> ELSE <<word>>) \o SplitFrom(s, i + 1, <<>>)
         ELSE SplitFrom(s, i + 1, Append(word, s[i]))

Split(s) == SplitFrom(s, 1, <<>>)

\* sub in s : sub occurs as a contiguous substring of s
Contains(s, sub) ==
    \E i \in 0..(Len(s) - Len(sub)) : Slice(s, i + 1, i + Len(sub)) = sub

\* s.endswith(suffix)
EndsWith(s, suffix) ==
    /\ Len(suffix) <= Len(s)
    /\ Slice(s, Len(s) - Len(suffix) + 1, Len(s)) = suffix

\* s.split(".", 1)[0]: s up to its first dot
SplitFirstDot(s) ==
    LET dots == {i \in 1..Len(s) : s[i] = "."}
        first == CHOOSE x \in dots : \A y \in dots : x <= y
    IN  IF dots = {} THEN s ELSE Slice(s, 1, first - 1)

\* s.rsplit(".", 1)[0]: s up to its last dot, the whole of s when it has none
RSplitDot(s) ==
    LET dots == {i \in 1..Len(s) : s[i] = "."}
        last == CHOOSE x \in dots : \A y \in dots : x >= y
    IN  IF dots = {} THEN s ELSE Slice(s, 1, last - 1)

(***************************************************************************)
(* dict with insertion order: a sequence of [key, val] entries             *)
(***************************************************************************)
Has(d, k) == \E i \in 1..Len(d) : d[i].key = k

Get(d, k) == d[CHOOSE i \in 1..Len(d) : d[i].key = k].val

\* d[k] = [v]: the earlier values of the key are lost
SetDefaultOverwrite(d, k, v) ==
    IF Has(d, k)
    THEN [i \in 1..Len(d) |-> IF d[i].key = k THEN [key |-> k, val |-> <<v>>] ELSE d[i]]
    ELSE Append(d, [key |-> k, val |-> <<v>>])

\* d.setdefault(k, []).append(v)
SetDefaultAppend(d, k, v) ==
    IF Has(d, k)
    THEN [i \in 1..Len(d) |->
            IF d[i].key = k THEN [key |-> k, val |-> Append(d[i].val, v)] ELSE d[i]]
    ELSE Append(d, [key |-> k, val |-> <<v>>])

(***************************************************************************)
(* natsort: natsorted(records, key=lambda record: record.id.lower())       *)
(***************************************************************************)
\* The maximal runs of digits and of non-digits of s, in order.
RECURSIVE RunsFrom(_, _, _)
RunsFrom(s, i, run) ==
    IF i > Len(s)
    THEN IF run = <<>> THEN <<>> ELSE <<run>>
    ELSE IF run = <<>> \/ IsDigit(run[1]) = IsDigit(s[i])
         THEN RunsFrom(s, i + 1, Append(run, s[i]))
         ELSE <<run>> \o RunsFrom(s, i + 1, <<s[i]>>)

Runs(s) == RunsFrom(s, 1, <<>>)

\* int(run) for a run of digits
RECURSIVE IntOf(_)
IntOf(run) ==
    IF run = <<>> THEN 0
    ELSE 10 * IntOf(SubSeq(run, 1, Len(run) - 1)) + (Code(run[Len(run)]) - 48)

\* One element of a natsort key: a text run or the value of a digit run.
Token(run) ==
    IF IsDigit(run[1])
    THEN [num |-> TRUE, n |-> IntOf(run), txt |-> <<>>]
    ELSE [num |-> FALSE, n |-> 0, txt |-> run]

\* The key natsort builds for a string: its runs, digit runs as integers,
\* with an empty text in front when the string starts with a digit.
NatKey(s) ==
    LET runs == Runs(s)
        toks == [i \in 1..Len(runs) |-> Token(runs[i])]
    IN  IF toks # <<>> /\ toks[1].num
        THEN <<[num |-> FALSE, n |-> 0, txt |-> <<>>]>> \o toks
        ELSE toks

\* a < b for Python strings: by code point, a proper prefix first
TextLess(a, b) ==
    \/ Len(a) < Len(b) /\ SubSeq(b, 1, Len(a)) = a
    \/ \E i \in 1..Len(a) :
          /\ i <= Len(b)
          /\ SubSeq(a, 1, i - 1) = SubSeq(b, 1, i - 1)
          /\ Code(a[i]) < Code(b[i])

TokenLess(x, y) == IF x.num THEN x.n < y.n ELSE TextLess(x.txt, y.txt)

\* k1 < k2 for Python tuples: the first differing element decides
KeyLess(k1, k2) ==
    \/ Len(k1) < Len(k2) /\ SubSeq(k2, 1, Len(k1)) = k1
    \/ \E i \in 1..Len(k1) :
          /\ i <= Len(k2)
          /\ SubSeq(k1, 1, i - 1) = SubSeq(k2, 1, i - 1)
          /\ TokenLess(k1[i], k2[i])

\* key=lambda record: record.id.lower(), as natsort reads it
SortKeyCaseSensitive(record) == NatKey(record.id)

SortKey(record) == NatKey(Lower(record.id))

\* r placed behind every element whose key is not greater (stable)
InsertSorted(sorted, r) ==
    LET n == Cardinality({i \in 1..Len(sorted) : ~KeyLess(SortKey(r), SortKey(sorted[i]))})
    IN  SubSeq(sorted, 1, n) \o <<r>> \o SubSeq(sorted, n + 1, Len(sorted))

RECURSIVE natsorted(_)
natsorted(recs) ==
    IF recs = <<>> THEN <<>>
    ELSE InsertSorted(natsorted(SubSeq(recs, 1, Len(recs) - 1)), recs[Len(recs)])

(***************************************************************************)
(* Bio.SeqIO                                                               *)
(***************************************************************************)
\* The title SeqIO.write gives a record: the description when it starts with
\* the id, else the id followed by the description, else the id alone.
Title(record) ==
    LET d == record.description
    IN  IF d # <<>> /\ Split(d) # <<>> /\ Split(d)[1] = record.id THEN d
        ELSE IF d # <<>> THEN record.id \o <<" ">> \o d
        ELSE record.id

FastaEntry(record) == [header |-> <<">">> \o Title(record), seq |-> record.seq]

\* SeqIO.write(recs, output_file, "fasta")
SeqIOWrite(recs) ==
    [written |-> TRUE, content |-> [i \in 1..Len(recs) |-> FastaEntry(recs[i])]]

NoOutput == [written |-> FALSE, content |-> <<>>]

\* What iterating a text file yields for a line: its text and the newline.
FileLine(text) == text \o <<"\n">>

\* The records SeqIO.parse yields from the FASTA inputs of the model.
InputRecords ==
    { [id |-> <<"s">>, description |-> <<"s", " ", "d">>, seq |-> <<"M">>],
      [id |-> <<"s">>, description |-> <<"s">>, seq |-> <<"K">>],
      [id |-> <<"t">>, description |-> <<"t">>, seq |-> <<"K">>],
      [id |-> <<"x">>, description |-> <<"x", " ", "d">>, seq |-> <<"M">>] }

(***************************************************************************)
(* extract_and_rename_sequences.py                                         *)
(***************************************************************************)
\* The lines of the list files of the model, without their newline.
ListLines ==
    { <<"a", " ", "s">>, <<"B", " ", "s">>,
      <<"a", "2", " ", " ", "t">>, <<"a", "1", "0", " ", "t">>,
      <<"a", " ", "s", " ", "x">>, <<"a">>, <<>> }

\* the copy with the id prefixed and the description left as it was
RenamedRecordKeepsDescription(record, string_id) ==
    [id |-> string_id \o <<"|">> \o record.id,
     description |-> record.description,
     seq |-> record.seq]

\* sequence_record = record[:] with the id prefixed and the description cleared
RenamedRecord(record, string_id) ==
    [id |-> string_id \o <<"|">> \o record.id,
     description |-> <<>>,
     seq |-> record.seq]

\* Lines 26-30, one line of the list file.
ExtractReadLine ==
    /\ prog = "extract"
    /\ pc = "read_list"
    /\ Len(list_file) < MaxLines
    /\ \E text \in ListLines :
         LET line == FileLine(text)
             parts == Split(line)
         IN  /\ list_file' = Append(list_file, line)
             /\ IF Len(parts) < 2
                THEN /\ pc' = "error"
                     /\ UNCHANGED sequences
                ELSE /\ sequences' = SetDefaultAppend(sequences, parts[2], parts[1])
                     /\ UNCHANGED pc
    /\ UNCHANGED <<prog, input_file, input_dir, listing, files, cursor, records,
                   sorted_records, keep_strings, kept_records, protein_info, output>>

\* End of the list file.
ExtractEndList ==
    /\ prog = "extract"
    /\ pc = "read_list"
    /\ pc' = "parse"
    /\ UNCHANGED <<prog, list_file, input_file, input_dir, listing, files, cursor,
                   sequences, records, sorted_records, keep_strings, kept_records,
                   protein_info, output>>

\* Lines 38-42: the copies of one record, one per string of its header.
RECURSIVE ExtractCopies(_, _)
ExtractCopies(record, string_ids) ==
    IF string_ids = <<>> THEN <<>>
    ELSE <<RenamedRecord(record, string_ids[1])>>
             \o ExtractCopies(record, SubSeq(string_ids, 2, Len(string_ids)))

\* Lines 36-42, one record of the input file.
ExtractParse ==
    /\ prog = "extract"
    /\ pc = "parse"
    /\ Len(input_file) < MaxRecords
    /\ \E record \in InputRecords :
         /\ input_file' = Append(input_file, record)
         /\ records' = IF Has(sequences, record.id)
                       THEN records \o ExtractCopies(record, Get(sequences, record.id))
                       ELSE records
    /\ UNCHANGED <<prog, pc, list_file, input_dir, listing, files, cursor, sequences,
                   sorted_records, keep_strings, kept_records, protein_info, output>>

\* Line 45, at the end of the input file.
ExtractSort ==
    /\ prog = "extract"
    /\ pc = "parse"
    /\ sorted_records' = natsorted(records)
    /\ pc' = "write"
    /\ UNCHANGED <<prog, list_file, input_file, input_dir, listing, files, cursor,
                   sequences, records, keep_strings, kept_records, protein_info, output>>

\* Line 48.
ExtractWrite ==
    /\ prog = "extract"
    /\ pc = "write"
    /\ output' = SeqIOWrite(sorted_records)
    /\ pc' = "done"
    /\ UNCHANGED <<prog, list_file, input_file, input_dir, listing, files, cursor,
                   sequences, records, sorted_records, keep_strings, kept_records,
                   protein_info>>

(***************************************************************************)
(* keep_verified_sequences.py                                              *)
(***************************************************************************)
\* The lines of the keep lists of the model, without their newline.
KeepLines ==
    { <<"g", "1">>, <<" ", "b", " ">>, <<"x">>, <<>> }

\* The records SeqIO.parse yields from the FASTA inputs of the keep script.
KeepRecords ==
    { [id |-> <<"g", "1", "|", "x">>,
       description |-> <<"g", "1", "|", "x", " ", "d">>, seq |-> <<"M">>],
      [id |-> <<"g", "1", "0", "|", "x">>,
       description |-> <<"g", "1", "0", "|", "x">>, seq |-> <<"K">>],
      [id |-> <<"a", "g", "1", "|", "x">>,
       description |-> <<"a", "g", "1", "|", "x">>, seq |-> <<"M">>],
      [id |-> <<"b", "|", "s">>,
       description |-> <<"b", "|", "s", " ", "d">>, seq |-> <<"K">>],
      [id |-> <<"x">>, description |-> <<"x">>, seq |-> <<"M">>] }

\* line.strip(), without the "|"
KeepStringNoBar(line) == Strip(line)

\* line.strip() + "|"
KeepString(line) == Strip(line) \o <<"|">>

\* any(string in record.id for string in keep_strings)
AnyKeepString(record, strings) ==
    \E i \in 1..Len(strings) : Contains(record.id, strings[i])

\* Lines 33-34, one line of the keep list.
KeepReadLine ==
    /\ prog = "keep"
    /\ pc = "read_list"
    /\ Len(list_file) < MaxLines
    /\ \E text \in KeepLines :
         /\ list_file' = Append(list_file, FileLine(text))
         /\ keep_strings' = Append(keep_strings, KeepString(FileLine(text)))
    /\ UNCHANGED <<prog, pc, input_file, input_dir, listing, files, cursor, sequences,
                   records, sorted_records, kept_records, protein_info, output>>

\* End of the keep list (lines 36-41).
KeepEndList ==
    /\ prog = "keep"
    /\ pc = "read_list"
    /\ pc' = "parse"
    /\ UNCHANGED <<prog, list_file, input_file, input_dir, listing, files, cursor,
                   sequences, records, sorted_records, keep_strings, kept_records,
                   protein_info, output>>

\* Lines 44-46, one record of the input file.
KeepParse ==
    /\ prog = "keep"
    /\ pc = "parse"
    /\ Len(input_file) < MaxRecords
    /\ \E record \in KeepRecords :
         /\ input_file' = Append(input_file, record)
         /\ kept_records' = IF AnyKeepString(record, keep_strings)
                            THEN Append(kept_records, record)
                            ELSE kept_records
    /\ UNCHANGED <<prog, pc, list_file, input_dir, listing, files, cursor, sequences,
                   records, sorted_records, keep_strings, protein_info, output>>

\* Line 49, at the end of the input file.
KeepWrite ==
    /\ prog = "keep"
    /\ pc = "parse"
    /\ output' = SeqIOWrite(kept_records)
    /\ pc' = "done"
    /\ UNCHANGED <<prog, list_file, input_file, input_dir, listing, files, cursor,
                   sequences, records, sorted_records, keep_strings, kept_records,
                   protein_info>>

(***************************************************************************)
(* merge_fasta_files.py                                                    *)
(***************************************************************************)
\* The file names of the input directories of the model.
MergeNames ==
    { <<"A", ".", "f", "a", "s", "t", "a">>, <<"a", ".", "f", "a">>,
      <<"A", ".", "f", "a">>, <<"g", "2", ".", "f", "a">>,
      <<"G", "2", ".", "f", "a", "s", "t", "a">>,
      <<"g", "1", "0", ".", "f", "a">>, <<"a", ".", "b", ".", "f", "a">>,
      <<"b", ".", "t", "x", "t">> }

\* The records SeqIO.parse yields from the files of the model.
MergeContents ==
    { <<[id |-> <<"x">>, description |-> <<"x", " ", "d">>, seq |-> <<"M">>]>>,
      <<[id |-> <<"x">>, description |-> <<"x">>, seq |-> <<"K">>]>>,
      <<[id |-> <<"t">>, description |-> <<"t">>, seq |-> <<"K">>],
        [id |-> <<"x">>, description |-> <<"x">>, seq |-> <<"M">>]>> }

\* file_name.endswith((".fasta", ".fa"))
IsFastaName(file_name) ==
    \/ EndsWith(file_name, <<".", "f", "a", "s", "t", "a">>)
    \/ EndsWith(file_name, <<".", "f", "a">>)

\* Lines 36-38: the copy of a record with the file name in front of its id.
GeneRecord(file_name, record) ==
    [id |-> RSplitDot(file_name) \o <<"|">> \o record.id,
     description |-> <<>>,
     seq |-> record.seq]

\* Lines 27-39 for one file: the records it adds to the list.
FileRecords(file_name, content) ==
    IF IsFastaName(file_name)
    THEN [i \in 1..Len(content) |-> GeneRecord(file_name, content[i])]
    ELSE <<>>

\* Lines 24-39 over a whole listing of the directory dir.
RECURSIVE MergeRecords(_, _)
MergeRecords(dir, names) ==
    IF names = <<>> THEN <<>>
    ELSE FileRecords(names[1], dir[names[1]])
             \o MergeRecords(dir, SubSeq(names, 2, Len(names)))

\* Lines 24-39, one file of os.listdir(input_dir).
MergeFile ==
    /\ prog = "merge"
    /\ pc = "files"
    /\ cursor[1] <= Len(listing)
    /\ records' = records \o FileRecords(listing[cursor[1]], input_dir[listing[cursor[1]]])
    /\ cursor' = <<cursor[1] + 1, 1>>
    /\ UNCHANGED <<prog, pc, list_file, input_file, input_dir, listing, files,
                   sequences, sorted_records, keep_strings, kept_records,
                   protein_info, output>>

\* Line 42, after the last file.
MergeSort ==
    /\ prog = "merge"
    /\ pc = "files"
    /\ cursor[1] > Len(listing)
    /\ sorted_records' = natsorted(records)
    /\ pc' = "write"
    /\ UNCHANGED <<prog, list_file, input_file, input_dir, listing, files, cursor,
                   sequences, records, keep_strings, kept_records, protein_info, output>>

\* Line 45.
MergeWrite ==
    /\ prog = "merge"
    /\ pc = "write"
    /\ output' = SeqIOWrite(sorted_records)
    /\ pc' = "done"
    /\ UNCHANGED <<prog, list_file, input_file, input_dir, listing, files, cursor,
                   sequences, records, sorted_records, keep_strings, kept_records,
                   protein_info>>

(***************************************************************************)
(* generate_protein_table.py                                               *)
(***************************************************************************)
missing == <<"m", "i", "s", "s", "i", "n", "g">>

\* The file names of the status directories of the model.
TableNames == { <<"A">>, <<"a">>, <<"b">>, <<"B">> }

\* The status files of the model: their lines, without the newline.
TableContents ==
    { << <<"p", " ", "f">>, <<"s", " ", "m", "i", "s", "s", "i", "n", "g">> >>,
      << <<"p", " ", "m", "i", "s", "s", "i", "n", "g">> >>,
      << <<"s", " ", " ", "f">> >>,
      << <<"p", " ", "f">>, <<"p", " ", "m", "i", "s", "s", "i", "n", "g">> >>,
      << <<"p", " ", "f", " ", "x">> >>,
      << <<"s", " ", "f">>, <<"p">> >>,
      << <<>> >>,
      << >> }

\* name placed behind every name whose lower-cased text is not greater
InsertName(sorted, name) ==
    LET n == Cardinality({i \in 1..Len(sorted) :
                             ~TextLess(Lower(name), Lower(sorted[i]))})
    IN  SubSeq(sorted, 1, n) \o <<name>> \o SubSeq(sorted, n + 1, Len(sorted))

\* sorted(names, key=str.lower)
RECURSIVE SortedLower(_)
SortedLower(names) ==
    IF names = <<>> THEN <<>>
    ELSE InsertName(SortedLower(SubSeq(names, 1, Len(names) - 1)), names[Len(names)])

\* 0 if status == 'missing' else 1
PresenceInverted(status) == IF status = missing THEN 1 ELSE 0

Presence(status) == IF status = missing THEN 0 ELSE 1

\* header_row = [''] + files
HeaderRow(names) == << <<>> >> \o names

\* row = [protein] + [0 if status == 'missing' else 1 for status in statuses]
Row(entry) == <<entry.key>> \o [i \in 1..Len(entry.val) |-> Presence(entry.val[i])]

\* Line 20.
TableListFiles ==
    /\ prog = "table"
    /\ pc = "list"
    /\ files' = SortedLower(listing)
    /\ pc' = "read"
    /\ UNCHANGED <<prog, list_file, input_file, input_dir, listing, cursor, sequences,
                   records, sorted_records, keep_strings, kept_records, protein_info,
                   output>>

\* Lines 33-35, one line of the file under the cursor.
TableReadLine ==
    /\ prog = "table"
    /\ pc = "read"
    /\ cursor[1] <= Len(files)
    /\ cursor[2] <= Len(input_dir[files[cursor[1]]])
    /\ LET line == FileLine(input_dir[files[cursor[1]]][cursor[2]])
           parts == Split(Strip(line))
       IN  IF Len(parts) # 2
           THEN /\ pc' = "error"
                /\ UNCHANGED <<protein_info, cursor>>
           ELSE /\ protein_info' = SetDefaultAppend(protein_info, parts[1], parts[2])
                /\ cursor' = <<cursor[1], cursor[2] + 1>>
                /\ UNCHANGED pc
    /\ UNCHANGED <<prog, list_file, input_file, input_dir, listing, files, sequences,
                   records, sorted_records, keep_strings, kept_records, output>>

\* Line 26, the next file once the lines of this one are read.
TableNextFile ==
    /\ prog = "table"
    /\ pc = "read"
    /\ cursor[1] <= Len(files)
    /\ cursor[2] > Len(input_dir[files[cursor[1]]])
    /\ cursor' = <<cursor[1] + 1, 1>>
    /\ UNCHANGED <<prog, pc, list_file, input_file, input_dir, listing, files,
                   sequences, records, sorted_records, keep_strings, kept_records,
                   protein_info, output>>

\* Lines 38-48, after the last file.
TableWrite ==
    /\ prog = "table"
    /\ pc = "read"
    /\ cursor[1] > Len(files)
    /\ output' = [written |-> TRUE,
                  content |-> <<HeaderRow(files)>>
                      \o [i \in 1..Len(protein_info) |-> Row(protein_info[i])]]
    /\ pc' = "done"
    /\ UNCHANGED <<prog, list_file, input_file, input_dir, listing, files, cursor,
                   sequences, records, sorted_records, keep_strings, kept_records,
                   protein_info>>

(***************************************************************************)
(* The runs                                                                *)
(***************************************************************************)
\* The orders in which os.listdir may return the names of a directory.
Listings(names) ==
    {l \in [1..Cardinality(names) -> names] :
        \A i, j \in 1..Cardinality(names) : l[i] = l[j] => i = j}

\* The directories of at most MaxFiles files with the given names and contents.
Directories(names, contents) ==
    UNION {[chosen -> contents] :
              chosen \in {c \in SUBSET names : Cardinality(c) <= MaxFiles}}

InitCommon ==
    /\ list_file = <<>>
    /\ input_file = <<>>
    /\ files = <<>>
    /\ cursor = <<1, 1>>
    /\ sequences = <<>>
    /\ records = <<>>
    /\ sorted_records = <<>>
    /\ keep_strings = <<>>
    /\ kept_records = <<>>
    /\ protein_info = <<>>
    /\ output = NoOutput

InitExtract ==
    /\ prog = "extract"
    /\ pc = "read_list"
    /\ input_dir = <<>>
    /\ listing = <<>>
    /\ InitCommon

InitKeep ==
    /\ prog = "keep"
    /\ pc = "read_list"
    /\ input_dir = <<>>
    /\ listing = <<>>
    /\ InitCommon

InitMerge ==
    /\ prog = "merge"
    /\ pc = "files"
    /\ input_dir \in Directories(MergeNames, MergeContents)
    /\ listing \in Listings(DOMAIN input_dir)
    /\ InitCommon

InitTable ==
    /\ prog = "table"
    /\ pc = "list"
    /\ input_dir \in Directories(TableNames, TableContents)
    /\ listing \in Listings(DOMAIN input_dir)
    /\ InitCommon

Init == InitExtract \/ InitKeep \/ InitMerge \/ InitTable

Next ==
    \/ ExtractReadLine \/ ExtractEndList \/ ExtractParse \/ ExtractSort \/ ExtractWrite
    \/ KeepReadLine \/ KeepEndList \/ KeepParse \/ KeepWrite
    \/ MergeFile \/ MergeSort \/ MergeWrite
    \/ TableListFiles \/ TableReadLine \/ TableNextFile \/ TableWrite

Spec == Init /\ [][Next]_vars

(***************************************************************************)
(* Properties                                                              *)
(***************************************************************************)
Finished(p) == prog = p /\ pc = "done"

\* How many positions of a sequence hold the value e.
Count(seq, e) == Cardinality({k \in 1..Len(seq) : seq[k] = e})

\* The label and the target of line j of the list file: its first two tokens.
LineLabel(j) == Split(list_file[j])[1]

LineTarget(j) == Split(list_file[j])[2]

\* The (record, line) pairs of a finished run whose target is the record's id.
MappedPairs ==
    {q \in (1..Len(input_file)) \X (1..Len(list_file)) :
        LineTarget(q[2]) = input_file[q[1]].id}

\* The FASTA entry the claim expects for a pair: ">label|id", no description.
MappedEntry(q) ==
    [header |-> <<">">> \o LineLabel(q[2]) \o <<"|">> \o input_file[q[1]].id,
     seq |-> input_file[q[1]].seq]

\* C1: Rename/Extract writes, for every input record and every mapping line
\* whose target is exactly the record's id, one record ">label|id" with no
\* description (as often as there are such lines), and nothing else; a
\* record no line targets contributes nothing.
C1_ExtractOutputIsTheMappedRecords ==
    Finished("extract") =>
        /\ Len(output.content) = Cardinality(MappedPairs)
        /\ \A q \in MappedPairs :
              Count(output.content, MappedEntry(q))
                  = Cardinality({r \in MappedPairs : MappedEntry(r) = MappedEntry(q)})

\* C1 witness: a record named by two lines is written twice, a record named
\* by none is dropped.
C1_Witness ==
    /\ Finished("extract")
    /\ Len(output.content) = 2
    /\ \E i \in 1..Len(input_file) :
          Cardinality({q \in MappedPairs : q[1] = i}) = 2
    /\ \E i \in 1..Len(input_file) :
          Cardinality({q \in MappedPairs : q[1] = i}) = 0

\* The lines of the status files read so far, in reading order: all lines of
\* the files before the cursor, and the lines before it in its file.
RECURSIVE LinesOfFiles(_)
LinesOfFiles(names) ==
    IF names = <<>> THEN <<>>
    ELSE input_dir[names[1]] \o LinesOfFiles(SubSeq(names, 2, Len(names)))

StatusLinesRead ==
    LinesOfFiles(SubSeq(files, 1, cursor[1] - 1))
        \o (IF cursor[1] <= Len(files)
            THEN SubSeq(input_dir[files[cursor[1]]], 1, cursor[2] - 1)
            ELSE <<>>)

\* C2: a label line or status line whose number of whitespace-delimited
\* tokens is not exactly two aborts the run, and no output file is written
\* by an aborted run.
C2_MalformedLineAborts ==
    /\ prog = "extract" =>
          \A j \in 1..Len(list_file) :
              Len(Split(list_file[j])) # 2 => pc = "error"
    /\ prog = "table" =>
          \A j \in 1..Len(StatusLinesRead) :
              Len(Split(StatusLinesRead[j])) # 2 => pc = "error"
    /\ pc = "error" => ~output.written

\* The rows of the written table: everything under the header row.
TableRows == SubSeq(output.content, 2, Len(output.content))

\* The status lines of file f that name protein p.
LinesNaming(f, p) ==
    {l \in 1..Len(input_dir[f]) : Split(input_dir[f][l])[1] = p}

\* C3: in the written table the value of protein p's row under the column
\* whose header is file f is 0 when f's status token for p is "missing" and
\* 1 otherwise, for every file f that has a status line for p.
C3_ColumnsAlignedWithFiles ==
    Finished("table") =>
        \A r \in 1..Len(TableRows) :
            \A c \in 2..Len(output.content[1]) :
                LET f == output.content[1][c]
                    p == TableRows[r][1]
                IN  LinesNaming(f, p) # {} =>
                        /\ c <= Len(TableRows[r])
                        /\ \E l \in LinesNaming(f, p) :
                              TableRows[r][c] =
                                  (IF Split(input_dir[f][l])[2] = missing THEN 0 ELSE 1)

\* The labels of the keep list: its lines, stripped.
KeepLabel(j) == Strip(list_file[j])

\* Label L occupies a whole "|"-terminated segment of id: it starts at the
\* beginning of id or right behind a "|", and a "|" follows it.
IsSegmentOf(L, id) ==
    \E i \in 1..Len(id) :
        /\ i = 1 \/ id[i - 1] = "|"
        /\ i + Len(L) <= Len(id)
        /\ \A k \in 1..Len(L) : id[i + k - 1] = L[k]
        /\ id[i + Len(L)] = "|"

\* C4: Keep/Verify retains a record only if some keep-list label is a whole
\* "|"-terminated segment of its identifier; a label that is only part of a
\* segment never retains a record.  Stated for keep lists without blank
\* lines, every line of which gives a label.
C4_KeptOnlyByWholeSegment ==
    (Finished("keep") /\ \A j \in 1..Len(list_file) : KeepLabel(j) # <<>>) =>
        \A i \in 1..Len(kept_records) :
            \E j \in 1..Len(list_file) : IsSegmentOf(KeepLabel(j), kept_records[i].id)

\* Label L followed by "|" occurs in id, starting at some position.
OccursBeforeBar(L, id) ==
    \E i \in 1..Len(id) :
        /\ i + Len(L) <= Len(id)
        /\ \A k \in 1..Len(L) : id[i + k - 1] = L[k]
        /\ id[i + Len(L)] = "|"

RetainedByList(record) ==
    \E j \in 1..Len(list_file) : OccursBeforeBar(KeepLabel(j), record.id)

\* C5: Keep/Verify retains a record if and only if some keep-list line,
\* stripped and followed by "|", occurs as a contiguous substring of the
\* record's identifier; the retained records are written in input order.
C5_KeptIffLabelBarOccurs ==
    Finished("keep") =>
        LET expected == SelectSeq(input_file, RetainedByList)
        IN  /\ Len(output.content) = Len(expected)
            /\ \A i \in 1..Len(expected) :
                  /\ output.content[i].seq = expected[i].seq
                  /\ SubSeq(output.content[i].header, 2, 1 + Len(expected[i].id))
                        = expected[i].id

\* C5 witness: with the label g1, g1|x is written and g10|x is not.
C5_Witness ==
    /\ Finished("keep")
    /\ \E j \in 1..Len(list_file) : KeepLabel(j) = <<"g", "1">>
    /\ \E i \in 1..Len(input_file) : input_file[i].id = <<"g", "1", "0", "|", "x">>
    /\ \E i \in 1..Len(input_file) : input_file[i].id = <<"g", "1", "|", "x">>
    /\ Len(output.content) = 1

\* C6: for a fixed input directory, every order in which the directory
\* listing may return the file names gives the same Merge output.
C6_MergeIndependentOfListing ==
    Finished("merge") =>
        \A l \in Listings(DOMAIN input_dir) :
            SeqIOWrite(natsorted(MergeRecords(input_dir, l))) = output

\* a <= b in the natural order: digit runs by value, other runs as text.
NaturalLeq(a, b) == ~KeyLess(NatKey(b), NatKey(a))

\* The records of a list whose lower-cased id is k, in the order of the list.
WithLowerId(recs, k) ==
    LET Is(r) == Lower(r.id) = k
    IN  SelectSeq(recs, Is)

Sorting == prog \in {"extract", "merge"} /\ pc \in {"write", "done"}

\* C7: the records Rename/Extract and Merge write are in natural order of
\* their lower-cased identifiers, records with equal lower-cased identifiers
\* in the order in which they were appended to the record list.
C7_OutputInNaturalOrder ==
    Sorting =>
        /\ \A i \in 1..(Len(sorted_records) - 1) :
              NaturalLeq(Lower(sorted_records[i].id), Lower(sorted_records[i + 1].id))
        /\ \A i \in 1..Len(sorted_records) :
              WithLowerId(sorted_records, Lower(sorted_records[i].id))
                  = WithLowerId(records, Lower(sorted_records[i].id))
        /\ Len(sorted_records) = Len(records)
        /\ pc = "done" =>
              /\ Len(output.content) = Len(sorted_records)
              /\ \A i \in 1..Len(sorted_records) :
                    /\ output.content[i].seq = sorted_records[i].seq
                    /\ SubSeq(output.content[i].header, 2,
                              1 + Len(sorted_records[i].id)) = sorted_records[i].id

\* C7 witness: Merge appended g10|x before g2|x (or G2|x) and wrote it behind.
C7_Witness ==
    /\ Finished("merge")
    /\ Len(records) = 2
    /\ records[1].id = <<"g", "1", "0", "|", "x">>
    /\ sorted_records[2].id = <<"g", "1", "0", "|", "x">>
    /\ Lower(sorted_records[1].id) = <<"g", "2", "|", "x">>

\* name without its last dot-delimited suffix
StemOf(name) ==
    LET k == CHOOSE d \in 1..Len(name) :
                 name[d] = "." /\ \A m \in (d + 1)..Len(name) : name[m] # "."
    IN  SubSeq(name, 1, k - 1)

HasFastaExtension(name) ==
    \/ Len(name) >= 6 /\ SubSeq(name, Len(name) - 5, Len(name)) = <<".", "f", "a", "s", "t", "a">>
    \/ Len(name) >= 3 /\ SubSeq(name, Len(name) - 2, Len(name)) = <<".", "f", "a">>

\* The (file, position) pairs of the records Merge is to write.
MergeSources ==
    UNION {{<<n, i>> : i \in 1..Len(input_dir[n])} :
              n \in {m \in DOMAIN input_dir : HasFastaExtension(m)}}

\* The entry the claim expects for the record at q: ">stem|id", its residues.
MergedEntry(q) ==
    [header |-> <<">">> \o StemOf(q[1]) \o <<"|">> \o input_dir[q[1]][q[2]].id,
     seq |-> input_dir[q[1]][q[2]].seq]

\* C8: Merge writes exactly one record for every record of every .fasta or
\* .fa file of the directory, named by the file name without its last
\* suffix, "|" and the record's id, with no description; other files
\* contribute nothing.
C8_MergeWritesRenamedRecordsOfFastaFiles ==
    Finished("merge") =>
        /\ Len(output.content) = Cardinality(MergeSources)
        /\ \A q \in MergeSources :
              Count(output.content, MergedEntry(q))
                  = Cardinality({r \in MergeSources : MergedEntry(r) = MergedEntry(q)})

\* C8 witness: a.b.fa is written as a.b|..., a file without the extension
\* is passed over.
C8_Witness ==
    /\ Finished("merge")
    /\ <<"a", ".", "b", ".", "f", "a">> \in DOMAIN input_dir
    /\ <<"b", ".", "t", "x", "t">> \in DOMAIN input_dir
    /\ Len(output.content) >= 1
    /\ SubSeq(output.content[1].header, 1, 5) = <<">", "a", ".", "b", "|">>

\* All status lines of a finished run, in the order they were read.
AllStatusLines == LinesOfFiles(files)

LineProtein(line) == Split(line)[1]

LineStatus(line) == Split(line)[2]

\* Where protein p is first named among the status lines.
FirstNamed(p) ==
    CHOOSE j \in 1..Len(AllStatusLines) :
        /\ LineProtein(AllStatusLines[j]) = p
        /\ \A m \in 1..(j - 1) : LineProtein(AllStatusLines[m]) # p

\* The presence values of the lines naming p, in reading order.
ValuesOf(p) ==
    LET Names(line) == LineProtein(line) = p
        lines == SelectSeq(AllStatusLines, Names)
    IN  [i \in 1..Len(lines) |-> IF LineStatus(lines[i]) = missing THEN 0 ELSE 1]

\* C9: the status files are read in case-insensitive file-name order; the
\* row of protein p holds the presence values (0 for "missing", 1 otherwise)
\* of exactly the lines naming p, in reading order, so its length is the
\* number of those lines; rows come in the order proteins are first named.
C9_RowsAreValuesOfLinesInReadingOrder ==
    Finished("table") =>
        /\ Len(files) = Cardinality(DOMAIN input_dir)
        /\ \A n \in DOMAIN input_dir : \E i \in 1..Len(files) : files[i] = n
        /\ \A i \in 1..(Len(files) - 1) :
              ~TextLess(Lower(files[i + 1]), Lower(files[i]))
        /\ output.content[1] = << <<>> >> \o files
        /\ \A j \in 1..Len(AllStatusLines) :
              \E r \in 1..Len(TableRows) :
                  TableRows[r][1] = LineProtein(AllStatusLines[j])
        /\ \A r \in 1..Len(TableRows) :
              /\ SubSeq(TableRows[r], 2, Len(TableRows[r])) = ValuesOf(TableRows[r][1])
              /\ Len(TableRows[r]) >= 2
              /\ \A q \in 1..(r - 1) :
                    FirstNamed(TableRows[q][1]) < FirstNamed(TableRows[r][1])

\* C9 witness: a protein named twice in one file and once in another has
\* three values, another protein has one.
C9_Witness ==
    /\ Finished("table")
    /\ Len(TableRows) = 2
    /\ Len(TableRows[1]) = 4
    /\ Len(TableRows[2]) = 2
    /\ \E n \in DOMAIN input_dir : Cardinality(LinesNaming(n, TableRows[1][1])) = 2

\* The records a finished FASTA run has written, in the order written.
WrittenRecords == IF prog = "keep" THEN kept_records ELSE sorted_records

\* C10 as stated: every record written by Rename/Extract, Merge and
\* Keep/Verify has the header ">" followed by its identifier and nothing
\* else, whatever description the input header carried.
C10_NoDescriptionInAnyOutput ==
    (pc = "done" /\ prog \in {"extract", "merge", "keep"}) =>
        \A i \in 1..Len(output.content) :
            output.content[i].header = <<">">> \o WrittenRecords[i].id

\* C10 amended: every record written by Rename/Extract and Merge has the
\* header ">" followed by its identifier and nothing else; Keep/Verify
\* writes a retained record under its input header, description included.
C10_RenamedOutputHasNoDescription ==
    /\ (pc = "done" /\ prog \in {"extract", "merge"}) =>
          /\ Len(output.content) = Len(sorted_records)
          /\ \A i \in 1..Len(output.content) :
                output.content[i].header = <<">">> \o sorted_records[i].id
    /\ Finished("keep") =>
          /\ Len(output.content) = Len(kept_records)
          /\ \A i \in 1..Len(output.content) :
                /\ output.content[i].header = <<">">> \o kept_records[i].description
                /\ \E k \in 1..Len(input_file) : kept_records[i] = input_file[k]

\* C10 witness: Rename/Extract wrote a record whose input header carried a
\* description.
C10_Witness ==
    /\ Finished("extract")
    /\ \E q \in MappedPairs :
          input_file[q[1]].description # input_file[q[1]].id
    /\ Len(output.content) >= 1

====
